---- MODULE Spec2Model ----
(***************************************************************************)
(* The Tauri backend of src-tauri/src/lib.rs: the three commands greet,     *)
(* load_audio_asset and load_model_fbx_from_zip, run as requests against a  *)
(* filesystem.  A request advances one filesystem call at a time, so that   *)
(* requests interleave with each other and with a changing filesystem.      *)
(***************************************************************************)
EXTENDS Naturals, Sequences, FiniteSets, TLC

VARIABLES
    debug,        \* cfg(debug_assertions): the build is a development build
    manifestDir,  \* the environment variable CARGO_MANIFEST_DIR is set
    resourceDir,  \* the platform can name the packaged-resource directory
    fs,           \* the filesystem: path -> file
    req           \* the requests: id -> local state of the handler

vars == <<debug, manifestDir, resourceDir, fs, req>>

----------------------------------------------------------------------------
(* Bounds of the model. *)

\* longest archive, in entries
MaxEntries == 2
\* requests in flight together
NumReq == 2

----------------------------------------------------------------------------
(* Strings.  Entry names are sequences of one-character strings, so that    *)
(* to_lowercase and ends_with are computed; paths and messages are strings. *)

UpperChars == <<"A","B","C","D","E","F","G","H","I","J","K","L","M",
                "N","O","P","Q","R","S","T","U","V","W","X","Y","Z">>
LowerChars == <<"a","b","c","d","e","f","g","h","i","j","k","l","m",
                "n","o","p","q","r","s","t","u","v","w","x","y","z">>

ToLowerChar(c) ==
    IF \E n \in 1..26 : UpperChars[n] = c
    THEN LowerChars[CHOOSE n \in 1..26 : UpperChars[n] = c]
    ELSE c

ToLowercase(name) == [n \in 1..Len(name) |-> ToLowerChar(name[n])]

EndsWith(s, suffix) ==
    /\ Len(s) >= Len(suffix)
    /\ SubSeq(s, Len(s) - Len(suffix) + 1, Len(s)) = suffix

DotFbx == <<".", "f", "b", "x">>

\* the comparison without to_lowercase
IsFbxEntryNameExact(name) == EndsWith(name, DotFbx)

\* the comparison with the suffix "fbx", the dot left out
IsFbxEntryNameNoDot(name) == EndsWith(ToLowercase(name), Tail(DotFbx))

\* the test of line 21, as the code computes it
IsFbxEntryName(name) == EndsWith(ToLowercase(name), DotFbx)

RECURSIVE NameString(_)
NameString(name) ==
    IF name = <<>> THEN "" ELSE Head(name) \o NameString(Tail(name))

----------------------------------------------------------------------------
(* Paths. *)

CargoManifestDir == "$CARGO_MANIFEST_DIR"
ResourceBase == "$RESOURCE"

Names == {"shot.ogg", "gun.zip"}

DevAudioPath(filename) == CargoManifestDir \o "/resources/audio/" \o filename
DevModelPath(zip_filename) == CargoManifestDir \o "/resources/models/" \o zip_filename

\* the list with its first two entries exchanged
AudioCandidatesFlatFirst(filename) ==
    << "resources/" \o filename,
       "resources/audio/" \o filename,
       "audio/" \o filename,
       filename >>

AudioCandidates(filename) ==
    << "resources/audio/" \o filename,
       "resources/" \o filename,
       "audio/" \o filename,
       filename >>

ModelCandidates(zip_filename) ==
    << "resources/models/" \o zip_filename,
       "resources/" \o zip_filename,
       "models/" \o zip_filename,
       zip_filename >>

ResourcePath(path_str) == ResourceBase \o "/" \o path_str

\* app.path().resolve(path_str, BaseDirectory::Resource)
Resolve(path_str) ==
    IF resourceDir
    THEN [ok |-> TRUE, path |-> ResourcePath(path_str)]
    ELSE [ok |-> FALSE, path |-> ""]

Range(s) == {s[n] : n \in 1..Len(s)}

DevPaths(n) == {DevAudioPath(n), DevModelPath(n)}
PackagedPaths(n) ==
    {ResourcePath(c) : c \in Range(AudioCandidates(n)) \cup Range(ModelCandidates(n))}
AllPaths == UNION {DevPaths(n) \cup PackagedPaths(n) : n \in Names}

----------------------------------------------------------------------------
(* Files.  A path holds nothing, a file that cannot be opened ("denied"),   *)
(* or a file with bytes; the bytes may be a zip archive with entries.       *)

NoFile == [kind |-> "none", raw |-> "", zip |-> FALSE, entries |-> <<>>]

Exists(path) == fs[path].kind # "none"

OsError(file) == IF file.kind = "none" THEN "NotFound" ELSE "PermissionDenied"

\* results: Ok(bytes) or Err(message), the message as its format and arguments
Ok(bytes) == [ok |-> TRUE, val |-> bytes, fmt |-> "", args |-> <<>>]
Err(fmt, args) == [ok |-> FALSE, val |-> "", fmt |-> fmt, args |-> args]
NoResult == [ok |-> FALSE, val |-> "", fmt |-> "(pending)", args |-> <<>>]

\* fs::read(path)
FsRead(path) ==
    IF fs[path].kind = "file"
    THEN [ok |-> TRUE, bytes |-> fs[path].raw, e |-> ""]
    ELSE [ok |-> FALSE, bytes |-> "", e |-> OsError(fs[path])]

\* fs::File::open(path): the handle keeps the file as it was opened
FileOpen(path) ==
    IF fs[path].kind = "file"
    THEN [ok |-> TRUE, file |-> fs[path], e |-> ""]
    ELSE [ok |-> FALSE, file |-> NoFile, e |-> OsError(fs[path])]

----------------------------------------------------------------------------
(* The messages of the code. *)

FmtVarError == "{}"
FmtZipOpen == "Failed to open zip file {:?}: {}"
FmtZipArchive == "Failed to read zip archive {:?}: {}"
FmtZipEntry == "Failed to read zip entry {} in {:?}: {}"
FmtFbxEntry == "Failed to read FBX entry {} in {:?}: {}"
FmtNoFbx == "No .fbx entry found in zip {:?}"
FmtModelNotFound == "Could not find model zip {} in resources"
FmtAudioDevRead == "Failed to read file from dev path {:?}: {}"
FmtAudioRead == "Failed to read file at {:?}: {}"
FmtAudioNotFound == "Could not find audio file {} in resources"

VarNotPresent == "environment variable not found"

GreetText(name) == "Hello, " \o name \o "! You've been greeted from Rust!"

----------------------------------------------------------------------------
(* The local state of a request.  probed, opened, observed, scanned and     *)
(* inflated record the calls the handler made: existence checks (with their *)
(* answers), opens or reads of a path (with the kind of file they met),     *)
(* by_index and read_to_end.                                                *)

NewRequest(cmd, arg) ==
    [cmd |-> cmd, arg |-> arg, pc |-> "invoked", i |-> 0, path |-> "",
     file |-> NoFile, k |-> 0, probed |-> <<>>, opened |-> <<>>,
     observed |-> <<>>, scanned |-> <<>>, inflated |-> <<>>,
     result |-> NoResult]

\* path.exists(), as recorded in probed
Probe(path) == [path |-> path, found |-> Exists(path)]

Return(s, result) == [s EXCEPT !.pc = "done", !.result = result]

Greet(s) == Return(s, Ok(GreetText(s.arg)))

\* the cfg(debug_assertions) block: the variable, the path, the existence check
DevMode(s, dev_path, next) ==
    IF ~debug THEN [s EXCEPT !.pc = "candidates"]
    ELSE IF ~manifestDir THEN Return(s, Err(FmtVarError, <<VarNotPresent>>))
    ELSE IF Exists(dev_path)
         THEN [s EXCEPT !.pc = next, !.path = dev_path,
                        !.probed = Append(@, Probe(dev_path))]
         ELSE [s EXCEPT !.pc = "candidates",
                        !.probed = Append(@, Probe(dev_path))]

\* one turn of `for path_str in maybe_paths`
Candidate(s, maybe_paths, next) ==
    LET r == Resolve(maybe_paths[s.i + 1]) IN
    IF ~r.ok THEN [s EXCEPT !.i = @ + 1]
    ELSE IF Exists(r.path)
         THEN [s EXCEPT !.pc = next, !.path = r.path,
                        !.probed = Append(@, Probe(r.path))]
         ELSE [s EXCEPT !.i = @ + 1, !.probed = Append(@, Probe(r.path))]

AudioDevMode(s) == DevMode(s, DevAudioPath(s.arg), "dev_read")
AudioCandidate(s) == Candidate(s, AudioCandidates(s.arg), "read")
AudioNotFound(s) == Return(s, Err(FmtAudioNotFound, <<s.arg>>))

\* a read failure turned into an empty result
AudioReadLossy(s) ==
    LET r == FsRead(s.path)
        t == [s EXCEPT !.opened = Append(@, s.path),
                       !.observed = Append(@, fs[s.path].kind)]
    IN  Return(t, Ok(r.bytes))

\* a read failure answered from the last candidate, <name>
AudioReadFallback(s) ==
    LET r == FsRead(s.path)
        other == ResourcePath(s.arg)
        t == [s EXCEPT !.opened = Append(@, s.path),
                       !.observed = Append(@, fs[s.path].kind)]
        u == [t EXCEPT !.opened = Append(@, other),
                       !.observed = Append(@, fs[other].kind)]
    IN  IF r.ok THEN Return(t, Ok(r.bytes))
        ELSE IF FsRead(other).ok THEN Return(u, Ok(FsRead(other).bytes))
        ELSE Return(u, Err(FmtAudioRead, <<s.path, r.e>>))

AudioRead(s) ==
    LET r == FsRead(s.path)
        t == [s EXCEPT !.opened = Append(@, s.path),
                       !.observed = Append(@, fs[s.path].kind)]
    IN  IF r.ok THEN Return(t, Ok(r.bytes))
        ELSE Return(t, Err(IF s.pc = "dev_read" THEN FmtAudioDevRead
                                                  ELSE FmtAudioRead,
                           <<s.path, r.e>>))

ModelDevMode(s) == DevMode(s, DevModelPath(s.arg), "open")
ModelCandidate(s) == Candidate(s, ModelCandidates(s.arg), "open")
ModelNotFound(s) == Return(s, Err(FmtModelNotFound, <<s.arg>>))

\* read_zip_entry: fs::File::open
ZipFileOpen(s) ==
    LET r == FileOpen(s.path)
        t == [s EXCEPT !.opened = Append(@, s.path),
                       !.observed = Append(@, fs[s.path].kind)]
    IN  IF r.ok THEN [t EXCEPT !.pc = "archive", !.file = r.file]
        ELSE Return(t, Err(FmtZipOpen, <<s.path, r.e>>))

\* a file that is no archive taken for an empty archive
ZipArchiveNewLenient(s) == [s EXCEPT !.pc = "scan", !.k = 0]

\* a file that is no archive passed over for the next candidate
ZipArchiveNewSkip(s) ==
    IF s.file.zip THEN [s EXCEPT !.pc = "scan", !.k = 0]
    ELSE IF s.path = DevModelPath(s.arg) THEN [s EXCEPT !.pc = "candidates"]
    ELSE [s EXCEPT !.pc = "candidates", !.i = @ + 1]

\* read_zip_entry: zip::ZipArchive::new
ZipArchiveNew(s) ==
    IF s.file.zip THEN [s EXCEPT !.pc = "scan", !.k = 0]
    ELSE Return(s, Err(FmtZipArchive, <<s.path, "InvalidArchive">>))

\* read_zip_entry: one turn of `for i in 0..archive.len()`
ZipEntry(s) ==
    LET entry == s.file.entries[s.k + 1]
        t == [s EXCEPT !.scanned = Append(@, s.k)]
    IN  IF entry.st = "badentry"
        THEN Return(t, Err(FmtZipEntry, <<ToString(s.k), s.path, "InvalidEntry">>))
        ELSE IF ~IsFbxEntryName(entry.name)
        THEN [t EXCEPT !.k = @ + 1]
        ELSE LET u == [t EXCEPT !.inflated = Append(@, s.k)] IN
             IF entry.st = "baddata"
             THEN Return(u, Err(FmtFbxEntry,
                                <<NameString(entry.name), s.path, "CorruptData">>))
             ELSE Return(u, Ok(entry.data))

\* read_zip_entry: the loop ran out
ZipNoEntry(s) == Return(s, Err(FmtNoFbx, <<s.path>>))

\* the step of a request in local state s, if it has one
Enabled(s, step) ==
    CASE step = "Greet" -> s.cmd = "greet" /\ s.pc = "invoked"
      [] step = "AudioDevMode" -> s.cmd = "load_audio_asset" /\ s.pc = "invoked"
      [] step = "AudioCandidate" ->
            s.cmd = "load_audio_asset" /\ s.pc = "candidates"
            /\ s.i < Len(AudioCandidates(s.arg))
      [] step = "AudioNotFound" ->
            s.cmd = "load_audio_asset" /\ s.pc = "candidates"
            /\ s.i = Len(AudioCandidates(s.arg))
      [] step = "AudioRead" ->
            s.cmd = "load_audio_asset" /\ s.pc \in {"dev_read", "read"}
      [] step = "ModelDevMode" ->
            s.cmd = "load_model_fbx_from_zip" /\ s.pc = "invoked"
      [] step = "ModelCandidate" ->
            s.cmd = "load_model_fbx_from_zip" /\ s.pc = "candidates"
            /\ s.i < Len(ModelCandidates(s.arg))
      [] step = "ModelNotFound" ->
            s.cmd = "load_model_fbx_from_zip" /\ s.pc = "candidates"
            /\ s.i = Len(ModelCandidates(s.arg))
      [] step = "ZipFileOpen" -> s.pc = "open"
      [] step = "ZipArchiveNew" -> s.pc = "archive"
      [] step = "ZipEntry" -> s.pc = "scan" /\ s.k < Len(s.file.entries)
      [] step = "ZipNoEntry" -> s.pc = "scan" /\ s.k = Len(s.file.entries)

----------------------------------------------------------------------------
(* Actions: request r takes its next step. *)

Set(r, s) == req' = [req EXCEPT ![r] = s]
Same == UNCHANGED <<debug, manifestDir, resourceDir, fs>>

DoGreet(r) == Enabled(req[r], "Greet") /\ Set(r, Greet(req[r])) /\ Same
DoAudioDevMode(r) ==
    Enabled(req[r], "AudioDevMode") /\ Set(r, AudioDevMode(req[r])) /\ Same
\* the loop index kept in a static shared by the audio requests
DoAudioCandidateSharedIndex(r) ==
    /\ Enabled(req[r], "AudioCandidate")
    /\ req' = [q \in DOMAIN req |->
                 IF q = r THEN AudioCandidate(req[r])
                 ELSE IF req[q].cmd = "load_audio_asset" /\ req[q].pc = "candidates"
                 THEN [req[q] EXCEPT !.i = AudioCandidate(req[r]).i]
                 ELSE req[q]]
    /\ Same

DoAudioCandidate(r) ==
    Enabled(req[r], "AudioCandidate") /\ Set(r, AudioCandidate(req[r])) /\ Same
DoAudioNotFound(r) ==
    Enabled(req[r], "AudioNotFound") /\ Set(r, AudioNotFound(req[r])) /\ Same
DoAudioRead(r) ==
    Enabled(req[r], "AudioRead") /\ Set(r, AudioRead(req[r])) /\ Same
DoModelDevMode(r) ==
    Enabled(req[r], "ModelDevMode") /\ Set(r, ModelDevMode(req[r])) /\ Same
DoModelCandidate(r) ==
    Enabled(req[r], "ModelCandidate") /\ Set(r, ModelCandidate(req[r])) /\ Same
DoModelNotFound(r) ==
    Enabled(req[r], "ModelNotFound") /\ Set(r, ModelNotFound(req[r])) /\ Same
DoZipFileOpen(r) ==
    Enabled(req[r], "ZipFileOpen") /\ Set(r, ZipFileOpen(req[r])) /\ Same
DoZipArchiveNew(r) ==
    Enabled(req[r], "ZipArchiveNew") /\ Set(r, ZipArchiveNew(req[r])) /\ Same
DoZipEntry(r) ==
    Enabled(req[r], "ZipEntry") /\ Set(r, ZipEntry(req[r])) /\ Same
DoZipNoEntry(r) ==
    Enabled(req[r], "ZipNoEntry") /\ Set(r, ZipNoEntry(req[r])) /\ Same

Next ==
    \/ \E r \in DOMAIN req : DoGreet(r)
    \/ \E r \in DOMAIN req : DoAudioDevMode(r)
    \/ \E r \in DOMAIN req : DoAudioCandidate(r)
    \/ \E r \in DOMAIN req : DoAudioNotFound(r)
    \/ \E r \in DOMAIN req : DoAudioRead(r)
    \/ \E r \in DOMAIN req : DoModelDevMode(r)
    \/ \E r \in DOMAIN req : DoModelCandidate(r)
    \/ \E r \in DOMAIN req : DoModelNotFound(r)
    \/ \E r \in DOMAIN req : DoZipFileOpen(r)
    \/ \E r \in DOMAIN req : DoZipArchiveNew(r)
    \/ \E r \in DOMAIN req : DoZipEntry(r)
    \/ \E r \in DOMAIN req : DoZipNoEntry(r)

\* the filesystem around the requests: a file is removed, a file appears
EnvRemove(p) ==
    /\ Exists(p)
    /\ fs' = [fs EXCEPT ![p] = NoFile]
    /\ UNCHANGED <<debug, manifestDir, resourceDir, req>>

EnvCreate(p, file) ==
    /\ ~Exists(p)
    /\ fs' = [fs EXCEPT ![p] = file]
    /\ UNCHANGED <<debug, manifestDir, resourceDir, req>>

----------------------------------------------------------------------------
(* A handler run from invocation to return with nothing in between. *)

StepOf(s) ==
    CASE Enabled(s, "Greet") -> Greet(s)
      [] Enabled(s, "AudioDevMode") -> AudioDevMode(s)
      [] Enabled(s, "AudioCandidate") -> AudioCandidate(s)
      [] Enabled(s, "AudioNotFound") -> AudioNotFound(s)
      [] Enabled(s, "AudioRead") -> AudioRead(s)
      [] Enabled(s, "ModelDevMode") -> ModelDevMode(s)
      [] Enabled(s, "ModelCandidate") -> ModelCandidate(s)
      [] Enabled(s, "ModelNotFound") -> ModelNotFound(s)
      [] Enabled(s, "ZipFileOpen") -> ZipFileOpen(s)
      [] Enabled(s, "ZipArchiveNew") -> ZipArchiveNew(s)
      [] Enabled(s, "ZipEntry") -> ZipEntry(s)
      [] Enabled(s, "ZipNoEntry") -> ZipNoEntry(s)
      [] OTHER -> s

RECURSIVE RunAlone(_)
RunAlone(s) == IF s.pc = "done" THEN s ELSE RunAlone(StepOf(s))

\* target is a state of the run of the handler alone, from state s on
RECURSIVE OnRunAlone(_, _)
OnRunAlone(s, target) ==
    \/ s = target
    \/ s.pc # "done" /\ OnRunAlone(StepOf(s), target)

----------------------------------------------------------------------------
(* Initial states: a build, a filesystem, and the requests invoked. *)

\* names of archive entries, and which of them the spec calls .fbx entries
NameUpper == <<"D","i","r","/","M",".","F","B","X">>
NameLower == <<"m",".","f","b","x">>
NameShort == <<"f","b","x">>
NameInner == <<"m",".","f","b","x",".","t","x","t">>
FbxNames == {NameUpper, NameLower}

\* the entries archives are made of: name, declared size, and whether
\* by_index ("badentry") or read_to_end ("baddata") fails on it
FbxUpper == [name |-> NameUpper, size |-> 3, st |-> "ok"]
FbxLowerBad == [name |-> NameLower, size |-> 0, st |-> "baddata"]
TxtInner == [name |-> NameInner, size |-> 2, st |-> "ok"]
ShortBad == [name |-> NameShort, size |-> 1, st |-> "baddata"]
Unreadable == [name |-> <<>>, size |-> 0, st |-> "badentry"]

EntryPool == {FbxUpper, FbxLowerBad, TxtInner, ShortBad, Unreadable}

Layouts(n) == UNION {[1..m -> EntryPool] : m \in 0..n}

\* what a file holds: plain bytes, or an archive of the given entries
Shapes(n) == {[zip |-> FALSE, entries |-> <<>>]}
             \cup {[zip |-> TRUE, entries |-> l] : l \in Layouts(n)}

BytesOf(path) == "bytes of " \o path
EntryData(path, n) == "entry " \o ToString(n - 1) \o " of " \o path

MkFile(path, kind, shape) ==
    IF kind = "file"
    THEN [kind |-> "file", raw |-> BytesOf(path), zip |-> shape.zip,
          entries |-> [n \in 1..Len(shape.entries) |->
                         [name |-> shape.entries[n].name,
                          size |-> shape.entries[n].size,
                          st   |-> shape.entries[n].st,
                          data |-> EntryData(path, n)]]]
    ELSE [NoFile EXCEPT !.kind = kind]

Kinds == {"none", "denied", "file"}

DevPathOf(cmd, n) ==
    IF cmd = "load_model_fbx_from_zip" THEN DevModelPath(n) ELSE DevAudioPath(n)
CandidatesOf(cmd, n) ==
    IF cmd = "load_model_fbx_from_zip" THEN ModelCandidates(n) ELSE AudioCandidates(n)
PackagedOf(cmd, n) == {ResourcePath(c) : c \in Range(CandidatesOf(cmd, n))}

Builds == [debug : BOOLEAN, manifestDir : BOOLEAN]

\* the files the dev-tree path may hold: none when the variable names no
\* tree; a release build never looks, so there a file or nothing
DevKinds(b) ==
    IF ~b.manifestDir THEN {"none"}
    ELSE IF b.debug THEN Kinds ELSE {"none", "file"}

\* the files a packaged path may hold
PackagedKinds(rd) == IF rd THEN Kinds ELSE {"none", "file"}

\* one request; every combination of files at the paths it may touch
InitOne ==
    \E b \in Builds, cmd \in {"greet", "load_audio_asset", "load_model_fbx_from_zip"},
       n \in Names :
      /\ debug = b.debug
      /\ manifestDir = b.manifestDir
      /\ resourceDir \in BOOLEAN
      /\ req = [r \in {1} |-> NewRequest(cmd, n)]
      /\ \E dk \in (IF cmd = "greet" THEN {"none"} ELSE DevKinds(b)),
            pk \in [PackagedOf(cmd, n) ->
                       IF cmd = "greet" THEN {"none"}
                       ELSE PackagedKinds(resourceDir)],
            shape \in (IF cmd = "load_model_fbx_from_zip"
                       THEN Shapes(MaxEntries) ELSE Shapes(0)) :
           fs = [p \in AllPaths |->
                   IF p = DevPathOf(cmd, n) THEN MkFile(p, dk, shape)
                   ELSE IF p \in PackagedOf(cmd, n) THEN MkFile(p, pk[p], shape)
                   ELSE NoFile]

Spec == InitOne /\ [][Next]_vars

----------------------------------------------------------------------------
(* One request while files come and go at the paths it may touch. *)

Commands == {"greet", "load_audio_asset", "load_model_fbx_from_zip"}
PlainShape == [zip |-> FALSE, entries |-> <<>>]
ZipShape == [zip |-> TRUE, entries |-> <<TxtInner, FbxUpper>>]
NoFbxShape == [zip |-> TRUE, entries |-> <<TxtInner>>]

TouchedPaths ==
    UNION {(IF debug /\ manifestDir THEN {DevPathOf(req[r].cmd, req[r].arg)} ELSE {})
           \cup PackagedOf(req[r].cmd, req[r].arg) :
           r \in {q \in DOMAIN req : req[q].cmd # "greet"}}

InitRace ==
    \E b \in Builds, cmd \in Commands :
      /\ debug = b.debug
      /\ manifestDir = b.manifestDir
      /\ resourceDir \in BOOLEAN
      /\ req = [r \in {1} |-> NewRequest(cmd, "gun.zip")]
      /\ fs = [p \in AllPaths |-> NoFile]

NextRace ==
    \/ Next
    \/ \E p \in TouchedPaths : EnvRemove(p)
    \/ \E p \in TouchedPaths, shape \in {PlainShape, ZipShape, NoFbxShape} :
          EnvCreate(p, MkFile(p, "file", shape))

SpecRace == InitRace /\ [][NextRace]_vars

----------------------------------------------------------------------------
(* Several requests in flight together, the filesystem left alone. *)

\* the paths of a name, the dev-tree ones first
PathList(n) ==
    << DevAudioPath(n), DevModelPath(n),
       ResourcePath("resources/audio/" \o n), ResourcePath("resources/models/" \o n),
       ResourcePath("resources/" \o n),
       ResourcePath("audio/" \o n), ResourcePath("models/" \o n),
       ResourcePath(n) >>

\* the commands in a fixed order: requests are alike, so their commands are
\* taken in this order
CommandRank(cmd) ==
    CASE cmd = "greet" -> 0 [] cmd = "load_audio_asset" -> 1 [] OTHER -> 2

\* what the first path that may hold something holds
FirstFiles ==
    {[kind |-> "none", shape |-> PlainShape], [kind |-> "denied", shape |-> PlainShape],
     [kind |-> "file", shape |-> PlainShape], [kind |-> "file", shape |-> NoFbxShape]}

\* nothing at the first j - 1 paths, one of FirstFiles at the j-th, zip
\* archives at the rest; nothing in a dev tree that no variable names
InitConc ==
    \E b \in Builds, cmds \in [1..NumReq -> Commands],
       j \in 1..Len(PathList("gun.zip")), k \in FirstFiles :
      /\ \A r \in 1..(NumReq - 1) : CommandRank(cmds[r]) <= CommandRank(cmds[r + 1])
      /\ debug = b.debug
      /\ manifestDir = b.manifestDir
      /\ resourceDir \in BOOLEAN
      /\ req = [r \in 1..NumReq |-> NewRequest(cmds[r], "gun.zip")]
      /\ fs = [p \in AllPaths |->
                LET L == PathList("gun.zip")
                    at == {m \in 1..Len(L) : L[m] = p}
                IN  IF at = {} THEN NoFile
                    ELSE IF p \in DevPaths("gun.zip") /\ ~b.manifestDir THEN NoFile
                    ELSE IF \E m \in at : m < j THEN NoFile
                    ELSE IF j \in at THEN MkFile(p, k.kind, k.shape)
                    ELSE MkFile(p, "file", ZipShape)]

SpecConc == InitConc /\ [][Next]_vars

----------------------------------------------------------------------------
(* What the specification says of a request, in its own terms. *)

Done(s) == s.pc = "done"
IsLoad(s) == s.cmd \in {"load_audio_asset", "load_model_fbx_from_zip"}
Category(cmd) == IF cmd = "load_model_fbx_from_zip" THEN "models" ELSE "audio"

\* <project root>/resources/<category>/<name>
SpecDevPath(s) ==
    CargoManifestDir \o "/resources/" \o Category(s.cmd) \o "/" \o s.arg

\* resources/<category>/<name>, resources/<name>, <category>/<name>, <name>
SpecCandidates(s) ==
    << ResourceBase \o "/resources/" \o Category(s.cmd) \o "/" \o s.arg,
       ResourceBase \o "/resources/" \o s.arg,
       ResourceBase \o "/" \o Category(s.cmd) \o "/" \o s.arg,
       ResourceBase \o "/" \o s.arg >>

SpecNotFound(s) ==
    IF s.cmd = "load_model_fbx_from_zip"
    THEN Err("Could not find model zip {} in resources", <<s.arg>>)
    ELSE Err("Could not find audio file {} in resources", <<s.arg>>)

Least(S) == CHOOSE n \in S : \A m \in S : n <= m
UpTo(n) == [m \in 1..n |-> m - 1]

\* the packaged candidates that resolve and exist, by priority
ExistingPackaged(s) ==
    {n \in 1..4 : resourceDir /\ Exists(SpecCandidates(s)[n])}

\* the existence checks made after the dev-tree one
PackagedProbes(s) ==
    IF s.probed # <<>> /\ s.probed[1].path = SpecDevPath(s)
    THEN Tail(s.probed) ELSE s.probed

ContentsAt(s, path) ==
    IF s.cmd = "load_audio_asset" THEN {fs[path].raw}
    ELSE {fs[path].entries[n].data : n \in 1..Len(fs[path].entries)}

\* the result of s was made from the file at path, and from no other
ProducedFrom(s, path) ==
    /\ s.opened = <<path>>
    /\ s.result.ok => s.result.val \in ContentsAt(s, path)
    /\ ~s.result.ok => path \in Range(s.result.args)

\* the handler has passed on to the packaged candidates
UsesPackaged(s) ==
    /\ s.pc # "invoked"
    /\ ~debug \/ (manifestDir /\ ~Exists(SpecDevPath(s)))

----------------------------------------------------------------------------
\* C1: once a load request passes on to the packaged candidates, it checks
\* them in the order resources/<category>/<name>, resources/<name>,
\* <category>/<name>, <name>, checks none below the first that resolves and
\* exists, opens that one alone, and makes its result from it; with none
\* existing it fails without opening anything.
C1_CandidatePriority ==
    \A r \in DOMAIN req :
        LET s == req[r]
            E == SpecCandidates(s)
            pp == PackagedProbes(s)
            X == ExistingPackaged(s)
        IN  (IsLoad(s) /\ UsesPackaged(s)) =>
              /\ Len(pp) <= 4
              /\ \A n \in 1..Len(pp) : pp[n].path = E[n]
              /\ \A n \in 1..Len(pp) : \A m \in X : n <= m
              /\ s.opened # <<>> => X # {} /\ s.opened = <<E[Least(X)]>>
              /\ Done(s) =>
                   IF X = {} THEN ~s.result.ok /\ s.opened = <<>>
                   ELSE ProducedFrom(s, E[Least(X)]) /\ Len(pp) = Least(X)

\* both resources/<category>/<name> and resources/<name> exist, and a model
\* request passed on to the packaged candidates has returned bytes
C1_Witness ==
    \E r \in DOMAIN req :
        LET s == req[r] IN
        /\ s.cmd = "load_model_fbx_from_zip" /\ Done(s) /\ UsesPackaged(s)
        /\ {1, 2} \subseteq ExistingPackaged(s)
        /\ s.result.ok

----------------------------------------------------------------------------
\* the candidate paths the build consults, by priority
SpecOrder(s) ==
    (IF debug /\ manifestDir THEN <<SpecDevPath(s)>> ELSE <<>>)
    \o (IF resourceDir THEN SpecCandidates(s) ELSE <<>>)

ExistingInOrder(s) ==
    {n \in 1..Len(SpecOrder(s)) : Exists(SpecOrder(s)[n])}

\* C2 as stated, for a request that found an existing candidate: it returns
\* that file's bytes, whichever of the candidates are readable.
C2_Original ==
    \A r \in DOMAIN req :
        LET s == req[r] IN
        (s.cmd = "load_audio_asset" /\ Done(s) /\ s.path # "") =>
            s.result.ok /\ s.result.val = BytesOf(s.path)

\* C2, amended: load_audio_asset returns bytes only of the highest-priority
\* candidate path that exists (the dev-tree path first in a development
\* build, then the packaged candidates in order): exactly that file's bytes
\* when it can be read, and the read error of that path when it cannot, also
\* when a lower candidate is readable.  A development build that cannot read
\* CARGO_MANIFEST_DIR returns no bytes at all.
C2_AudioBytesOfFirstExisting ==
    \A r \in DOMAIN req :
        LET s == req[r]
            order == SpecOrder(s)
            X == ExistingInOrder(s)
        IN  (s.cmd = "load_audio_asset" /\ Done(s)) =>
              IF debug /\ ~manifestDir THEN ~s.result.ok
              ELSE IF X = {} THEN ~s.result.ok
              ELSE LET p == order[Least(X)] IN
                   /\ s.opened = <<p>>
                   /\ fs[p].kind = "file" => s.result = Ok(BytesOf(p))
                   /\ fs[p].kind = "denied" =>
                        /\ ~s.result.ok
                        /\ s.result.args = <<p, "PermissionDenied">>

\* the first existing candidate cannot be read, a lower one can, and the
\* request ended with the read error
C2_Witness ==
    \E r \in DOMAIN req :
        LET s == req[r]
            order == SpecOrder(s)
            X == ExistingInOrder(s)
        IN  /\ s.cmd = "load_audio_asset" /\ Done(s)
            /\ X # {} /\ fs[order[Least(X)]].kind = "denied"
            /\ \E n \in X : fs[order[n]].kind = "file"
            /\ s.opened = <<order[Least(X)]>>
            /\ ~s.result.ok

----------------------------------------------------------------------------
\* the request has opened its file as a zip archive
ArchiveOpened(s) ==
    /\ s.cmd = "load_model_fbx_from_zip"
    /\ s.pc \in {"scan", "done"}
    /\ s.file.kind = "file" /\ s.file.zip

FbxEntries(s) ==
    {n \in 1..Len(s.file.entries) : s.file.entries[n].name \in FbxNames}

\* C3: in an archive whose entries up to the first .fbx one (any case) can be
\* read, the request takes the entries in index order, returns the full data
\* of that first .fbx entry, and reads no later entry, whatever the sizes,
\* the depth of the names, and the entries after it.
C3_FirstFbxEntryWins ==
    \A r \in DOMAIN req :
        LET s == req[r]
            F == FbxEntries(s)
        IN  ArchiveOpened(s) =>
              /\ \A n \in 1..Len(s.scanned) : s.scanned[n] = n - 1
              /\ ( /\ F # {}
                   /\ \A n \in 1..Least(F) : s.file.entries[n].st # "badentry"
                   /\ s.file.entries[Least(F)].st = "ok" ) =>
                     /\ Len(s.scanned) <= Least(F)
                     /\ Done(s) =>
                          /\ s.result = Ok(s.file.entries[Least(F)].data)
                          /\ s.scanned = UpTo(Least(F))
                          /\ s.inflated = <<Least(F) - 1>>

\* an archive with two .fbx entries of different case, and the first returned
C3_Witness ==
    \E r \in DOMAIN req :
        LET s == req[r] IN
        /\ ArchiveOpened(s) /\ Done(s)
        /\ Cardinality(FbxEntries(s)) >= 2
        /\ s.file.entries[1].name # s.file.entries[2].name
        /\ s.result = Ok(s.file.entries[1].data)

----------------------------------------------------------------------------
\* C4 as stated: with no file at the dev-tree path nor at any packaged
\* candidate, a load request ends with its "Could not find" error naming
\* the requested filename.
C4_NotFoundWhenNothingExists ==
    \A r \in DOMAIN req :
        LET s == req[r] IN
        ( /\ IsLoad(s) /\ Done(s)
          /\ ~Exists(SpecDevPath(s))
          /\ \A n \in 1..4 : ~Exists(SpecCandidates(s)[n]) ) =>
            s.result = SpecNotFound(s)

----------------------------------------------------------------------------
\* C5: an archive that opens, whose entries can all be taken by index and of
\* which none is named *.fbx (any case): the request examines every entry,
\* inflates none, and fails with "No .fbx entry found" naming the zip path.
C5_NoFbxEntry ==
    \A r \in DOMAIN req :
        LET s == req[r] IN
        ( /\ ArchiveOpened(s) /\ Done(s)
          /\ FbxEntries(s) = {}
          /\ \A n \in 1..Len(s.file.entries) : s.file.entries[n].st # "badentry" ) =>
            /\ s.result = Err("No .fbx entry found in zip {:?}", <<s.path>>)
            /\ s.scanned = UpTo(Len(s.file.entries))
            /\ s.inflated = <<>>

\* a full archive of readable entries, none of them .fbx, has been scanned
C5_Witness ==
    \E r \in DOMAIN req :
        LET s == req[r] IN
        /\ ArchiveOpened(s) /\ Done(s)
        /\ FbxEntries(s) = {}
        /\ Len(s.file.entries) = MaxEntries
        /\ \A n \in 1..Len(s.file.entries) : s.file.entries[n].st = "ok"
        /\ ~s.result.ok

----------------------------------------------------------------------------
\* the request opened a file that is no zip archive
OpenedNonZip(s) ==
    /\ s.cmd = "load_model_fbx_from_zip"
    /\ s.file.kind = "file" /\ ~s.file.zip

\* C6: a file that opens but is no zip archive ends the request with the
\* "Failed to read zip archive" error naming the path, a message unlike
\* those of the other failures; no entry is taken and no bytes are returned.
C6_ArchiveOpenError ==
    \A r \in DOMAIN req :
        LET s == req[r] IN
        /\ OpenedNonZip(s) => s.scanned = <<>> /\ s.inflated = <<>>
        /\ (OpenedNonZip(s) /\ Done(s)) =>
             /\ s.result = Err("Failed to read zip archive {:?}: {}",
                               <<s.path, "InvalidArchive">>)
             /\ s.result.fmt \notin {FmtZipOpen, FmtZipEntry, FmtFbxEntry,
                                     FmtNoFbx, FmtModelNotFound, FmtVarError}

\* a non-zip file was selected, opened, and the request has ended
C6_Witness ==
    \E r \in DOMAIN req :
        LET s == req[r] IN
        OpenedNonZip(s) /\ Done(s) /\ s.opened = <<s.path>> /\ ~s.result.ok

----------------------------------------------------------------------------
\* C7 as stated: in a development build, a request whose dev-tree path exists
\* checks and opens that path alone; one whose dev-tree path does not exist
\* goes through the packaged candidates as a production build does.
C7_DevShortCircuit ==
    \A r \in DOMAIN req :
        LET s == req[r]
            E == SpecCandidates(s)
            X == ExistingPackaged(s)
        IN  (IsLoad(s) /\ debug /\ Done(s)) =>
              IF Exists(SpecDevPath(s))
              THEN /\ s.probed = <<[path |-> SpecDevPath(s), found |-> TRUE]>>
                   /\ ProducedFrom(s, SpecDevPath(s))
              ELSE IF X = {} THEN s.result = SpecNotFound(s)
                   ELSE ProducedFrom(s, E[Least(X)])

----------------------------------------------------------------------------
\* using the selected file fails: it cannot be opened, is no archive, has no
\* .fbx entry, or an entry fails before one is returned
UseFails(s) ==
    LET f == fs[s.path]
        Stop == {n \in 1..Len(f.entries) :
                    f.entries[n].st = "badentry" \/ f.entries[n].name \in FbxNames}
    IN  \/ f.kind # "file"
        \/ /\ s.cmd = "load_model_fbx_from_zip"
           /\ \/ ~f.zip
              \/ Stop = {}
              \/ f.entries[Least(Stop)].st # "ok"

UseFailureFmts ==
    {"Failed to read file from dev path {:?}: {}", "Failed to read file at {:?}: {}",
     "Failed to open zip file {:?}: {}", "Failed to read zip archive {:?}: {}",
     "Failed to read zip entry {} in {:?}: {}", "Failed to read FBX entry {} in {:?}: {}",
     "No .fbx entry found in zip {:?}"}

\* C8: a request checks no path twice and none after one was found to exist;
\* it opens only that path, once; and when using it fails, the request ends
\* with that failure, naming the path.
C8_NothingRetried ==
    \A r \in DOMAIN req :
        LET s == req[r] IN
        IsLoad(s) =>
          /\ \A n, m \in 1..Len(s.probed) :
                s.probed[n].path = s.probed[m].path => n = m
          /\ \A n \in 1..Len(s.probed) : s.probed[n].found => n = Len(s.probed)
          /\ s.path # "" =>
                s.probed[Len(s.probed)] = [path |-> s.path, found |-> TRUE]
          /\ s.opened \in {<<>>, <<s.path>>}
          /\ (s.path # "" /\ UseFails(s)) =>
                /\ s.pc # "done" \/ ~s.result.ok
                /\ Done(s) =>
                     /\ s.opened = <<s.path>>
                     /\ s.result.fmt \in UseFailureFmts
                     /\ s.path \in Range(s.result.args)

\* the first existing candidate failed, a lower candidate holds a file that
\* would have served, and the request ended with the failure
C8_Witness ==
    \E r \in DOMAIN req :
        LET s == req[r]
            E == SpecCandidates(s)
        IN  /\ IsLoad(s) /\ Done(s) /\ s.path = E[1] /\ UseFails(s)
            /\ ~s.result.ok
            /\ fs[E[2]].kind = "file"
            /\ s.cmd = "load_model_fbx_from_zip" => fs[E[1]].kind = "denied"

----------------------------------------------------------------------------
\* what a load request may return from the file at path
BytesFrom(s, path) ==
    IF s.cmd = "load_audio_asset" THEN {BytesOf(path)}
    ELSE {EntryData(path, n) : n \in 1..Len(s.file.entries)}

\* C9: while files are created and removed around it, a load request opens
\* at most one path, the one its last existence check found to exist; bytes
\* it returns are bytes of that path; and when the file had gone by the time
\* of the open or read, it ends with the error for that path and no bytes.
C9_BytesFromTheCheckedPath ==
    \A r \in DOMAIN req :
        LET s == req[r] IN
        IsLoad(s) =>
          /\ Len(s.opened) <= 1
          /\ s.opened # <<>> =>
                /\ s.probed # <<>>
                /\ s.probed[Len(s.probed)] = [path |-> s.opened[1], found |-> TRUE]
                /\ \A n \in 1..(Len(s.probed) - 1) : ~s.probed[n].found
          /\ (Done(s) /\ s.result.ok) =>
                /\ s.opened # <<>>
                /\ s.result.val \in BytesFrom(s, s.opened[1])
          /\ (Done(s) /\ s.observed = <<"none">>) =>
                /\ ~s.result.ok
                /\ s.result.val = ""
                /\ s.result.args = <<s.opened[1], "NotFound">>

\* a path passed the existence check, the file was gone when it was opened,
\* another candidate holds a file, and the request ended in an error
C9_Witness ==
    \E r \in DOMAIN req :
        LET s == req[r] IN
        /\ IsLoad(s) /\ Done(s)
        /\ s.probed # <<>> /\ s.probed[Len(s.probed)].found
        /\ s.observed = <<"none">>
        /\ \E p \in PackagedOf(s.cmd, s.arg) : p # s.opened[1] /\ fs[p].kind = "file"
        /\ ~s.result.ok

----------------------------------------------------------------------------
\* C10: with requests interleaved in any order, each request is at every step
\* in a state of its own run alone, and returns what that run returns; and no
\* step of a request changes the filesystem.
C10_RequestsIndependent ==
    /\ [](\A r \in DOMAIN req :
            LET s == req[r]
                alone == NewRequest(s.cmd, s.arg)
            IN  /\ OnRunAlone(alone, s)
                /\ Done(s) => s.result = RunAlone(alone).result)
    /\ [][fs' = fs]_vars

\* an audio and a model request, run together, both returned bytes of the
\* same file
C10_Witness ==
    \E r, q \in DOMAIN req :
        /\ req[r].cmd = "load_audio_asset" /\ req[q].cmd = "load_model_fbx_from_zip"
        /\ Done(req[r]) /\ Done(req[q])
        /\ req[r].result.ok /\ req[q].result.ok
        /\ req[r].opened = req[q].opened

====
